---- MODULE Spec2Model ----
(***************************************************************************)
(* A model of ico2png.py: ico2png(data) converts the bytestring of an ICO  *)
(* file to PNG data.  The input buffer is a sequence of bytes; the         *)
(* function is followed statement by statement, every exception it can     *)
(* raise included.  Python index i of a string is index i + 1 here.        *)
(***************************************************************************)
EXTENDS Integers, Sequences, FiniteSets

VARIABLES
    data,            \* the argument of ico2png: a sequence of bytes
    pc,              \* position in ico2png
    header,          \* unpack('<3H', data[0:6])
    image_count,     \* header[2]
    directories,     \* the normalised directory records read so far
    directory,       \* the record max() selected
    width, height, offset,   \* directory[0], directory[1], directory[7]
    result,          \* the dict built at lines 68-74
    dib_size, dib, bits_per_pixel, bmp_data_bytes,
    palette, xor_data_bits, and_data_bits,
    raw_pixels,      \* 24/32 bpp: rows of unpacked source pixels
    pixels,          \* rows of RGBA channel values handed to the PNG writer
    ret,             \* the value ico2png returns
    exc,             \* the exception ico2png raises
    reads            \* indices of data the DIB decoder (lines 79-162) has read

vars == << data, pc, header, image_count, directories, directory, width, height,
           offset, result, dib_size, dib, bits_per_pixel, bmp_data_bytes, palette,
           xor_data_bits, and_data_bits, raw_pixels, pixels, ret, exc, reads >>

----------------------------------------------------------------------------
(* Bounds of the model. *)

MaxEntries == 2      \* directory entries per file
MaxDim == 2          \* raw width/height of a decoded image
MaxSeed == 2         \* distinct fillings of palette, XOR, AND and pixel bytes

----------------------------------------------------------------------------
(* Python and struct helpers. *)

Min(a, b) == IF a < b THEN a ELSE b

\* s[a:b] for 0 <= a <= b: the slice is silently cut at the end of s
PySlice(s, a, b) == SubSeq(s, a + 1, Min(b, Len(s)))

\* s[a:]
PyTail(s, a) == SubSeq(s, a + 1, Len(s))

\* the indices of s that s[a:b] reads
SliceIdx(s, a, b) == { i \in a .. (b - 1) : i < Len(s) }

\* little-endian unsigned fields of struct.unpack, k a 0-based position in s
U16(s, k) == s[k + 1] + 256 * s[k + 2]
U32(s, k) == s[k + 1] + 256 * s[k + 2] + 65536 * s[k + 3] + 16777216 * s[k + 4]
\* little-endian signed 32-bit field ('l')
S32(s, k) ==
    IF s[k + 4] >= 128
    THEN (s[k + 1] + 256 * s[k + 2] + 65536 * s[k + 3] + 16777216 * (s[k + 4] - 128))
         - 2147483647 - 1
    ELSE U32(s, k)

\* unpack('<3H', s), defined when Len(s) = 6
Unpack3H(s) == << U16(s, 0), U16(s, 2), U16(s, 4) >>

\* unpack('<4B2H2I', s), defined when Len(s) = 16
Unpack4B2H2I(s) ==
    << s[1], s[2], s[3], s[4], U16(s, 4), U16(s, 6), U32(s, 8), U32(s, 12) >>

\* unpack('<L2l2H2L2l2L', s), defined when Len(s) = 40
UnpackDib(s) ==
    << U32(s, 0), S32(s, 4), S32(s, 8), U16(s, 12), U16(s, 14), U32(s, 16),
       U32(s, 20), S32(s, 24), S32(s, 28), U32(s, 32), U32(s, 36) >>

\* "\211PNG\r\n\032\n"
PNG_SIGNATURE == << 137, 80, 78, 71, 13, 10, 26, 10 >>

\* the only DIB header size the decoder handles
DIB_HEADER_SIZE == 40

\* header[:2] != (0,1) is the "not an ICO" test
IsIcoHeader_typeOnly(h) == h[2] = 1
IsIcoHeader(h) == << h[1], h[2] >> = << 0, 1 >>

\* for j in xrange(3): if not directory[j]: directory[j] = 256
Normalize_identity(d) == d
Normalize(d) == [ j \in 1 .. Len(d) |-> IF j <= 3 /\ d[j] = 0 THEN 256 ELSE d[j] ]

\* x[0:3] > y[0:3] as Python compares lists
KeyGreater(a, b) ==
    \/ a[1] > b[1]
    \/ a[1] = b[1] /\ a[2] > b[2]
    \/ a[1] = b[1] /\ a[2] = b[2] /\ a[3] > b[3]

\* max(directories, key=lambda x: x[0:3]): the first record whose key none exceeds
RECURSIVE MaxFrom(_, _, _)
MaxFrom(ds, k, best) ==
    IF k > Len(ds) THEN best
    ELSE MaxFrom(ds, k + 1, IF KeyGreater(ds[k], best) THEN ds[k] ELSE best)

PyMax(ds) == MaxFrom(ds, 2, ds[1])

\* _bitlist(byte): the 8 bits of byte, most significant first
_bitlist_lsb(byte) == [ k \in 1 .. 8 |-> (byte \div 2 ^ (k - 1)) % 2 ]
_bitlist(byte) == [ k \in 1 .. 8 |-> (byte \div 2 ^ (8 - k)) % 2 ]

\* _bitlistvalue(l) = reduce(lambda x, y: 2 * x + y, l, 0)
RECURSIVE BitFold(_, _, _)
BitFold(l, k, acc) == IF k > Len(l) THEN acc ELSE BitFold(l, k + 1, 2 * acc + l[k])

_bitlistvalue(l) == BitFold(l, 1, 0)

\* [bit for byte in s for bit in _bitlist(byte)]
BitsOf(s) == [ k \in 1 .. 8 * Len(s) |-> _bitlist(s[((k - 1) \div 8) + 1])[((k - 1) % 8) + 1] ]

\* and_row_size = ((width + 31) >> 5) << 2
AndRowSize_unpadded(w) == (w + 7) \div 8
AndRowSize(w) == ((w + 31) \div 32) * 4

\* the source row that output row r is read from: xrange(height-1, -1, -1)
SourceRow_noflip(r, h) == r
SourceRow(r, h) == h - 1 - r

\* (px[2], px[1], px[0], px[3])
Rgba32_opaque(px) == << px[3], px[2], px[1], 255 >>
Rgba32(px) == << px[3], px[2], px[1], px[4] >>

\* (px[2], px[1], px[0], 255)
Rgba24(px) == << px[3], px[2], px[1], 255 >>

\* palette entry from an RGBQUAD: tuple([color[x] for x in (2, 1, 0)])
PaletteColor(color) == << color[3], color[2], color[1] >>

\* concatenation of a sequence of sequences of n items each
Flatten(ss, n) == [ k \in 1 .. n * Len(ss) |-> ss[((k - 1) \div n) + 1][((k - 1) % n) + 1] ]

----------------------------------------------------------------------------
(* The input buffers: ICO files assembled field by field, well formed and   *)
(* malformed, from which Init draws the argument of ico2png.                *)

Bytes16(v) == << v % 256, v \div 256 >>
Bytes32(v) == << v % 256, (v \div 256) % 256, (v \div 65536) % 256, v \div 16777216 >>

Zeros(n) == [ k \in 1 .. n |-> 0 ]

\* byte k of the pixel data (XOR map or direct-colour pixels) under a seed
FillByte(seed, k) == (seed * 67 + k * 57 + 47) % 256

\* RGBQUAD k of the palette (blue, green, red, reserved) under a seed
FillQuad(seed, k) ==
    << (k * 16 + seed + 1) % 256, (k * 32 + 2 * seed + 2) % 256,
       (k * 48 + 3) % 256, (k + seed) % 256 >>

\* row r of the AND map, padded to and_row_size bytes: the leading mask bits vary
FillAndRow(seed, r, w) ==
    [ k \in 1 .. AndRowSize(w) |-> IF k = 1 THEN (seed * (r * 2 + 3) * 32) % 256 ELSE 0 ]

\* the bytes of the colour data a w x h image of depth bpp is stored in
ColorBytes(w, h, bpp) == (w * h * bpp + 7) \div 8

\* BITMAPINFOHEADER followed by palette, XOR map and AND map (depth <= 8) or
\* by the direct-colour pixels and the AND map
DibBytes(w, h, inp) ==
    LET bpp == inp.bpp
        n == ColorBytes(w, h, bpp)
        hdr == Bytes32(inp.dibsize) \o Bytes32(w) \o Bytes32(2 * h) \o Bytes16(1)
               \o Bytes16(bpp) \o Bytes32(0)
               \o Bytes32(IF inp.sizegiven THEN n ELSE 0) \o Zeros(16)
        pal == IF bpp <= 8
               THEN Flatten([ k \in 1 .. 2 ^ bpp |-> FillQuad(inp.seed, k - 1) ], 4)
               ELSE << >>
        col == [ k \in 1 .. n |-> FillByte(inp.seed, k) ]
        msk == Flatten([ r \in 1 .. h |-> FillAndRow(inp.seed, r - 1, w) ], AndRowSize(w))
    IN  hdr \o pal \o col \o msk

\* the image an entry points at; an entry of raw width or height 0 (256) is
\* given a header with no image data behind it
Payload(e, inp) ==
    CASE e.kind = "png8" -> PNG_SIGNATURE
      [] e.kind = "png" -> PNG_SIGNATURE \o << 0, 0, 0, 13, 73, 72, 68, 82 >>
      [] OTHER -> IF e.w = 0 \/ e.h = 0 THEN DibBytes(0, 0, inp)
                  ELSE DibBytes(e.w, e.h, inp)

\* the images of entries 1 .. k, one after the other
RECURSIVE Payloads(_, _, _)
Payloads(es, k, inp) ==
    IF k = 0 THEN << >> ELSE Payloads(es, k - 1, inp) \o Payload(es[k], inp)

RECURSIVE PayloadsBefore(_, _, _)
PayloadsBefore(es, k, inp) ==
    IF k <= 1 THEN 0
    ELSE PayloadsBefore(es, k - 1, inp) + Len(Payload(es[k - 1], inp))

\* ICONDIRENTRY k: width, height, colour count, reserved, planes, bit count,
\* bytes in resource, image offset
EntryBytes(es, k, inp) ==
    LET e == es[k]
        size == Len(Payload(e, inp))
    IN  << e.w, e.h, e.cc, 0 >> \o Bytes16(1) \o Bytes16(inp.bpp)
        \o Bytes32(IF inp.bir = "exact" THEN size ELSE Min(size, DIB_HEADER_SIZE))
        \o Bytes32(6 + 16 * Len(es) + PayloadsBefore(es, k, inp))

IcoBytes(inp) ==
    LET es == inp.entries
    IN  Bytes16(inp.hdr[1]) \o Bytes16(inp.hdr[2]) \o Bytes16(Len(es) + inp.extra)
        \o Flatten([ k \in 1 .. Len(es) |-> EntryBytes(es, k, inp) ], 16)
        \o Payloads(es, Len(es), inp)

\* the file cut to at most keep bytes, less cut bytes at its end
Build(inp) ==
    LET full == IcoBytes(inp)
    IN  SubSeq(full, 1, Min(inp.keep, Len(full) - Min(inp.cut, Len(full))))

Whole == 1000000

Entry(w, h, cc, kind) == [ w |-> w, h |-> h, cc |-> cc, kind |-> kind ]

Input(hdr, extra, entries, bpp, dibsize, sizegiven, seed, bir, keep, cut) ==
    [ hdr |-> hdr, extra |-> extra, entries |-> entries, bpp |-> bpp,
      dibsize |-> dibsize, sizegiven |-> sizegiven, seed |-> seed, bir |-> bir,
      keep |-> keep, cut |-> cut ]

SeqsUpTo(S, n) == UNION { [ 1 .. k -> S ] : k \in 0 .. n }

\* raw directory dimensions: 0 stands for 256
DirDims == { 0, 1, MaxDim }

\* headers: good and bad signatures, buffers shorter than the header
HeaderInputs ==
    { Input(h, 0, << Entry(1, 1, 2, "dib") >>, 32, DIB_HEADER_SIZE, TRUE, 0, "exact", k, 0) :
        h \in { << 0, 1 >>, << 1, 1 >>, << 0, 2 >>, << 0, 0 >>, << 256, 1 >>, << 0, 257 >> },
        k \in { 0, 3, 5, 6, Whole } }

\* directories: every combination of entries, each image an embedded PNG
DirectoryInputs ==
    { Input(<< 0, 1 >>, 0, es, 32, DIB_HEADER_SIZE, TRUE, 0, "exact", Whole, 0) :
        es \in SeqsUpTo({ Entry(w, h, cc, "png8") :
                            w \in DirDims, h \in DirDims, cc \in { 0, 16 } }, MaxEntries)
               \cup { << Entry(16, 16, 16, "png8"), Entry(32, 32, 0, "png8") >>,
                      << Entry(32, 32, 0, "png8"), Entry(16, 16, 16, "png8") >> } }

\* buffers that end inside the directory, or declare one record too many
ShortInputs ==
    UNION { { Input(<< 0, 1 >>, x, [ j \in 1 .. n |-> Entry(j, 1, 2, "png8") ], 32,
                    DIB_HEADER_SIZE, TRUE, 0, "exact", k, 0) :
                x \in { 0, 1 },
                k \in { 6, 6 + 16 * n - 1, 6 + 16 * n - 9, 6 + 16 * n, Whole } } :
            n \in 1 .. MaxEntries }

\* image formats: PNG at the end of the buffer and before it, DIB headers of
\* other sizes, a selected entry of width 256
FormatInputs ==
    { Input(<< 0, 1 >>, 0, es, b, d, TRUE, 1, "exact", Whole, 0) :
        es \in { s \in SeqsUpTo({ Entry(w, 1, 2, kd) :
                                    w \in { 0, 1 }, kd \in { "png8", "png", "dib" } }, 2) :
                 s # << >> },
        b \in { 1, 32 }, d \in { DIB_HEADER_SIZE, 12, 124 } }

\* the depths the decoder is given
Depths == { 0, 1, 2, 3, 4, 16, 24, 32 }

\* one DIB image of every small size and depth, whole or cut short
DibInputs ==
    { Input(<< 0, 1 >>, 0, << Entry(d[1], d[2], 2, "dib") >>, b, DIB_HEADER_SIZE,
            sg, sd, br, Whole, c) :
        d \in (1 .. MaxDim) \X (1 .. MaxDim), b \in Depths, sg \in BOOLEAN,
        sd \in 0 .. MaxSeed, br \in { "exact", "header" }, c \in { 0, 1, 5 } }

\* the deeper palettes, and a second image behind the first
DeepInputs ==
    { Input(<< 0, 1 >>, 0, << Entry(1, 1, 2, "png8"), Entry(2, h, 0, "dib") >>, b,
            DIB_HEADER_SIZE, TRUE, sd, "exact", Whole, 0) :
        h \in { 1, 2 }, b \in { 1, 5, 6, 7, 8, 24, 32 }, sd \in { 0, 1 } }

Inputs ==
    HeaderInputs \cup DirectoryInputs \cup ShortInputs \cup FormatInputs
        \cup DibInputs \cup DeepInputs

----------------------------------------------------------------------------
(* State. *)

NoException == [ type |-> "none", line |-> 0 ]
NoReturn == [ returned |-> FALSE, passthrough |-> FALSE, bytes |-> << >>,
              width |-> 0, height |-> 0, rows |-> << >> ]
NoResult == [ width |-> 0, height |-> 0, colors |-> 0, bytes |-> 0, offset |-> 0 ]

Init ==
    /\ data \in { Build(inp) : inp \in Inputs }
    /\ pc = "header"
    /\ header = << >>
    /\ image_count = 0
    /\ directories = << >>
    /\ directory = << >>
    /\ width = 0 /\ height = 0 /\ offset = 0
    /\ result = NoResult
    /\ dib_size = 0 /\ dib = << >> /\ bits_per_pixel = 0 /\ bmp_data_bytes = 0
    /\ palette = << >> /\ xor_data_bits = << >> /\ and_data_bits = << >>
    /\ raw_pixels = << >>
    /\ pixels = << >>
    /\ ret = NoReturn
    /\ exc = NoException
    /\ reads = { }

----------------------------------------------------------------------------
(* ico2png, statement by statement. *)

headerVars == << header, image_count >>
dirVars == << directories, directory, width, height, offset, result >>
dibVars == << dib_size, dib, bits_per_pixel, bmp_data_bytes >>
mapVars == << palette, xor_data_bits, and_data_bits >>

Raise(type, line) ==
    /\ pc' = "raised"
    /\ exc' = [ type |-> type, line |-> line ]

Goto(label) ==
    /\ pc' = label
    /\ exc' = exc

\* rows filled pixel by pixel, each row n items long: the 0-based row and
\* column of the next pixel, and the rows with one more pixel
NextRow(rows, n) ==
    IF rows = << >> \/ Len(rows[Len(rows)]) = n THEN Len(rows) ELSE Len(rows) - 1
NextCol(rows, n, per) ==
    IF rows = << >> \/ Len(rows[Len(rows)]) = n THEN 0 ELSE Len(rows[Len(rows)]) \div per
WithPixel(rows, n, items) ==
    IF rows = << >> \/ Len(rows[Len(rows)]) = n THEN Append(rows, items)
    ELSE [ rows EXCEPT ![Len(rows)] = @ \o items ]
Filled(rows, n, h) == Len(rows) = h /\ Len(rows[h]) = n

\* lines 41-50: the 6-byte ICO header
UnpackHeader ==
    /\ pc = "header"
    /\ LET s == PySlice(data, 0, 6)
       IN  IF Len(s) # 6
           THEN /\ Raise("TypeError", 45)
                /\ UNCHANGED headerVars
           ELSE /\ header' = Unpack3H(s)
                /\ IF ~IsIcoHeader(Unpack3H(s))
                   THEN /\ Raise("TypeError", 47)
                        /\ UNCHANGED image_count
                   ELSE /\ image_count' = Unpack3H(s)[3]
                        /\ Goto("directories")
    /\ UNCHANGED << data, dirVars, dibVars, mapVars, raw_pixels, pixels, ret, reads >>

\* lines 54-59: one pass of the loop that collects the icon directories
ReadDirectory ==
    /\ pc = "directories"
    /\ Len(directories) < image_count
    /\ LET i == Len(directories)
           s == PySlice(data, 6 + 16 * i, 6 + 16 * i + 16)
       IN  IF Len(s) # 16
           THEN /\ Raise("struct.error", 55)
                /\ UNCHANGED directories
           ELSE /\ directories' = Append(directories, Normalize(Unpack4B2H2I(s)))
                /\ Goto("directories")
    /\ UNCHANGED << data, headerVars, directory, width, height, offset, result,
                    dibVars, mapVars, raw_pixels, pixels, ret, reads >>

\* lines 61-74: select the "best" icon and note its fields
SelectBest ==
    /\ pc = "directories"
    /\ Len(directories) = image_count
    /\ IF directories = << >>
       THEN /\ Raise("ValueError", 62)
            /\ UNCHANGED << directory, width, height, offset, result >>
       ELSE LET d == PyMax(directories)
            IN  /\ directory' = d
                /\ width' = d[1]
                /\ height' = d[2]
                /\ offset' = d[8]
                /\ result' = [ width |-> d[1], height |-> d[2], colors |-> d[3],
                               bytes |-> d[7], offset |-> d[8] ]
                /\ Goto("detect")
    /\ UNCHANGED << data, headerVars, directories, dibVars, mapVars, raw_pixels,
                    pixels, ret, reads >>

\* lines 75-77: a PNG is returned as it is
DetectFormat ==
    /\ pc = "detect"
    /\ IF PySlice(data, offset, offset + 16) = PNG_SIGNATURE
       THEN /\ ret' = [ NoReturn EXCEPT !.returned = TRUE, !.passthrough = TRUE,
                                       !.bytes = PyTail(data, offset) ]
            /\ Goto("returned")
       ELSE /\ Goto("dib_size")
            /\ UNCHANGED ret
    /\ UNCHANGED << data, headerVars, dirVars, dibVars, mapVars, raw_pixels, pixels,
                    reads >>

\* lines 79-81: the size of the DIB header
ReadDibSize ==
    /\ pc = "dib_size"
    /\ LET s == PySlice(data, offset, offset + 4)
       IN  /\ reads' = reads \cup SliceIdx(data, offset, offset + 4)
           /\ IF Len(s) # 4
              THEN /\ Raise("struct.error", 79)
                   /\ UNCHANGED dib_size
              ELSE /\ dib_size' = U32(s, 0)
                   /\ IF U32(s, 0) # DIB_HEADER_SIZE
                      THEN Raise("TypeError", 81)
                      ELSE Goto("dib_header")
    /\ UNCHANGED << data, headerVars, dirVars, dib, bits_per_pixel, bmp_data_bytes,
                    mapVars, raw_pixels, pixels, ret >>

\* lines 83-88, 139, 155, 171-172: the DIB header and the choice of decoder
UnpackDibHeader ==
    /\ pc = "dib_header"
    /\ LET s == PySlice(data, offset, offset + dib_size)
       IN  /\ reads' = reads \cup SliceIdx(data, offset, offset + dib_size)
           /\ IF Len(s) # 40
              THEN /\ Raise("struct.error", 83)
                   /\ UNCHANGED << dib, bits_per_pixel, bmp_data_bytes >>
              ELSE LET d == UnpackDib(s)
                   IN  /\ dib' = d
                       /\ bits_per_pixel' = d[5]
                       /\ bmp_data_bytes' =
                              IF d[7] = 0 THEN (width * height * d[5]) \div 8 ELSE d[7]
                       /\ IF d[5] <= 8 THEN Goto("palette")
                          ELSE IF d[5] = 32 THEN Goto("raw32")
                          ELSE IF d[5] = 24 THEN Goto("raw24")
                          ELSE Raise("TypeError", 172)
    /\ UNCHANGED << data, headerVars, dirVars, dib_size, mapVars, raw_pixels, pixels,
                    ret >>

\* lines 89-96: assemble the colour palette
AssemblePalette ==
    /\ pc = "palette"
    /\ LET color_count == 2 ^ bits_per_pixel
           at(i) == offset + dib_size + 4 * i
       IN  /\ reads' = reads \cup SliceIdx(data, at(0), at(color_count))
           /\ IF \E i \in 0 .. (color_count - 1) : Len(PySlice(data, at(i), at(i) + 4)) # 4
              THEN /\ Raise("struct.error", 92)
                   /\ UNCHANGED palette
              ELSE /\ palette' = [ i \in 1 .. color_count |->
                                     PaletteColor(PySlice(data, at(i - 1), at(i - 1) + 4)) ]
                   /\ Goto("xor_map")
    /\ UNCHANGED << data, headerVars, dirVars, dibVars, xor_data_bits, and_data_bits,
                    raw_pixels, pixels, ret >>

\* lines 98-106: the XorMap bits
ReadXorMap ==
    /\ pc = "xor_map"
    /\ LET from == offset + dib_size + (2 ^ bits_per_pixel) * 4
       IN  /\ xor_data_bits' = BitsOf(PySlice(data, from, from + bmp_data_bytes))
           /\ reads' = reads \cup SliceIdx(data, from, from + bmp_data_bytes)
    /\ Goto("and_map")
    /\ UNCHANGED << data, headerVars, dirVars, dibVars, palette, and_data_bits,
                    raw_pixels, pixels, ret >>

\* lines 107-116: the AndMap bits
ReadAndMap ==
    /\ pc = "and_map"
    /\ LET from == offset + dib_size + (2 ^ bits_per_pixel) * 4 + bmp_data_bytes
           and_row_size == AndRowSize(width)
       IN  /\ and_data_bits' = BitsOf(PySlice(data, from, from + and_row_size * height))
           /\ reads' = reads \cup SliceIdx(data, from, from + and_row_size * height)
    /\ Goto("pixels")
    /\ UNCHANGED << data, headerVars, dirVars, dibVars, palette, xor_data_bits,
                    raw_pixels, pixels, ret >>

\* lines 119-130: get_pixel(x, y); the value is << >> where it raises IndexError
get_pixel(x, y) ==
    LET m == (height - y - 1) * AndRowSize(width) * 8 + x
        from == bits_per_pixel * ((height - y - 1) * width + x)
        v == _bitlistvalue(PySlice(xor_data_bits, from, from + bits_per_pixel))
    IN  IF m >= Len(and_data_bits) THEN << >>
        ELSE IF and_data_bits[m + 1] = 1 THEN << 0, 0, 0, 0 >>
        ELSE IF v >= Len(palette) THEN << >>
        ELSE palette[v + 1] \o << 255 >>

\* lines 131-138: one pixel of the combined image, rows from the top
AssemblePixel ==
    /\ pc = "pixels"
    /\ LET y == NextRow(pixels, 4 * result.width)
           x == NextCol(pixels, 4 * result.width, 4)
           c == get_pixel(x, y)
       IN  IF c = << >>
           THEN /\ Raise("IndexError", 120)
                /\ UNCHANGED pixels
           ELSE /\ pixels' = WithPixel(pixels, 4 * result.width, c)
                /\ IF Filled(pixels', 4 * result.width, result.height)
                   THEN Goto("write")
                   ELSE Goto("pixels")
    /\ UNCHANGED << data, headerVars, dirVars, dibVars, mapVars, raw_pixels, ret, reads >>

\* lines 140-146 and 156-162: one source pixel of n bytes, rows from the last
ReadRawPixel(n, line, next) ==
    LET y == SourceRow(NextRow(raw_pixels, width), height)
        x == NextCol(raw_pixels, width, 1)
        from == offset + dib_size + n * (y * width + x)
        s == PySlice(data, from, from + n)
    IN  /\ reads' = reads \cup SliceIdx(data, from, from + n)
        /\ IF Len(s) # n
           THEN /\ Raise("struct.error", line)
                /\ UNCHANGED raw_pixels
           ELSE /\ raw_pixels' = WithPixel(raw_pixels, width, << s >>)
                /\ IF Filled(raw_pixels', width, height)
                   THEN Goto(next)
                   ELSE Goto(pc)
        /\ UNCHANGED << data, headerVars, dirVars, dibVars, mapVars, pixels, ret >>

ReadRawPixel32 ==
    /\ pc = "raw32"
    /\ ReadRawPixel(4, 142, "reorder32")

ReadRawPixel24 ==
    /\ pc = "raw24"
    /\ ReadRawPixel(3, 158, "reorder24")

\* lines 147-154: blue, green, red, alpha to red, green, blue, alpha
Reorder32 ==
    /\ pc = "reorder32"
    /\ pixels' = [ r \in 1 .. Len(raw_pixels) |->
                     Flatten([ k \in 1 .. Len(raw_pixels[r]) |-> Rgba32(raw_pixels[r][k]) ], 4) ]
    /\ Goto("write")
    /\ UNCHANGED << data, headerVars, dirVars, dibVars, mapVars, raw_pixels, ret, reads >>

\* lines 163-170: blue, green, red to red, green, blue, opaque
Reorder24 ==
    /\ pc = "reorder24"
    /\ pixels' = [ r \in 1 .. Len(raw_pixels) |->
                     Flatten([ k \in 1 .. Len(raw_pixels[r]) |-> Rgba24(raw_pixels[r][k]) ], 4) ]
    /\ Goto("write")
    /\ UNCHANGED << data, headerVars, dirVars, dibVars, mapVars, raw_pixels, ret, reads >>

\* lines 174-177: the PNG writer is given the size and the rows; what it
\* returns is the encoding of exactly these
WritePng ==
    /\ pc = "write"
    /\ ret' = [ NoReturn EXCEPT !.returned = TRUE, !.width = result.width,
                                !.height = result.height, !.rows = pixels ]
    /\ Goto("returned")
    /\ UNCHANGED << data, headerVars, dirVars, dibVars, mapVars, raw_pixels, pixels,
                    reads >>

Next ==
    \/ UnpackHeader
    \/ ReadDirectory
    \/ SelectBest
    \/ DetectFormat
    \/ ReadDibSize
    \/ UnpackDibHeader
    \/ AssemblePalette
    \/ ReadXorMap
    \/ ReadAndMap
    \/ AssemblePixel
    \/ ReadRawPixel32
    \/ ReadRawPixel24
    \/ Reorder32
    \/ Reorder24
    \/ WritePng

Spec == Init /\ [][Next]_vars

----------------------------------------------------------------------------
(* What the claims speak of, read from the input buffer itself. *)

Decoding == { "dib_size", "dib_header", "palette", "xor_map", "and_map", "pixels",
              "raw32", "raw24", "reorder32", "reorder24", "write" }

\* an entry has been selected (line 62 is behind)
Selected ==
    \/ pc \in Decoding \cup { "detect", "returned" }
    \/ pc = "raised" /\ exc.line > 62

\* the conversion has entered the DIB decoder (line 79)
InDecoder ==
    \/ pc \in Decoding
    \/ pc = "returned" /\ ~ret.passthrough
    \/ pc = "raised" /\ exc.line >= 79

\* the 40-byte DIB header has been unpacked (line 83 is behind)
DibParsed ==
    \/ pc \in Decoding \ { "dib_size", "dib_header" }
    \/ pc = "returned" /\ ~ret.passthrough
    \/ pc = "raised" /\ exc.line > 83

\* the first two header fields and the image count, from the buffer
BufferHasIcoHeader == Len(data) >= 6 /\ U16(data, 0) = 0 /\ U16(data, 2) = 1
BufferCount == U16(data, 4)

\* raw 0 means 256
ZeroAs256(v) == IF v = 0 THEN 256 ELSE v

\* (width, height, colorCount) of directory entry i (0-based) of the buffer
EntryTuple(i) == [ j \in 1 .. 3 |-> ZeroAs256(data[6 + 16 * i + j]) ]
EntryOffset(i) == U32(data, 6 + 16 * i + 12)

LexGreaterEq(a, b) ==
    \/ a[1] > b[1]
    \/ a[1] = b[1] /\ a[2] > b[2]
    \/ a[1] = b[1] /\ a[2] = b[2] /\ a[3] >= b[3]

\* the output pixel (x, y), y from the top, of rows of RGBA channel values
PixelAt(rows, x, y) == SubSeq(rows[y + 1], 4 * x + 1, 4 * x + 4)
HasPixel(rows, x, y) == y + 1 <= Len(rows) /\ 4 * x + 4 <= Len(rows[y + 1])

\* the layout of a palette-indexed image in the buffer
ImageDataSize ==
    IF U32(data, offset + 20) = 0
    THEN (width * height * U16(data, offset + 14)) \div 8
    ELSE U32(data, offset + 20)
PaletteStart == offset + 40
XorStart == PaletteStart + 4 * (2 ^ U16(data, offset + 14))
AndStart == XorStart + ImageDataSize
RowStrideBits == 8 * (((width + 31) \div 32) * 4)

\* bit k (0-based, most significant first) of the bytes that start at from
BufferBit(from, k) == (data[from + (k \div 8) + 1] \div 2 ^ (7 - (k % 8))) % 2

AndBitIndex(x, y) == (height - y - 1) * RowStrideBits + x
AndBitPresent(x, y) == AndStart + (AndBitIndex(x, y) \div 8) < Len(data)
AndBit(x, y) == BufferBit(AndStart, AndBitIndex(x, y))

\* the palette index of pixel (x, y): the depth-wide group of XOR bits, 0 when
\* the XOR map ends before it
XorBitOffset(x, y) == U16(data, offset + 14) * ((height - y - 1) * width + x)
XorIndex(x, y) ==
    LET bpp == U16(data, offset + 14)
        k == XorBitOffset(x, y)
        have == Min(ImageDataSize, Len(data) - XorStart)
    IN  IF k + bpp > 8 * have THEN 0
        ELSE (data[XorStart + (k \div 8) + 1] \div 2 ^ (8 - bpp - (k % 8))) % (2 ^ bpp)

\* the stored palette entry i: blue, green, red, reserved
PaletteRgb(i) ==
    << data[PaletteStart + 4 * i + 3], data[PaletteStart + 4 * i + 2],
       data[PaletteStart + 4 * i + 1] >>

PaletteDepths == { 1, 2, 4, 8 }
SupportedDepths == { 1, 2, 4, 8, 24, 32 }

\* the pixels of a palette-indexed image that have been produced
IndexedPixels ==
    IF DibParsed /\ bits_per_pixel \in PaletteDepths
    THEN { p \in (0 .. (width - 1)) \X (0 .. (height - 1)) : HasPixel(pixels, p[1], p[2]) }
    ELSE { }

\* where the source pixel of output pixel (x, y) of a direct-colour image is stored
DirectPixelStart(x, y) ==
    offset + 40 + (bits_per_pixel \div 8) * ((height - 1 - y) * width + x)

----------------------------------------------------------------------------
(* The claims. *)

\* C1: with a valid header and at least one entry, if the 8 bytes at the selected
\* entry's imageOffset are the PNG signature, the conversion returns exactly the
\* bytes from imageOffset to the end of the buffer, whatever follows the
\* signature, and never enters the DIB decoder.
C1_PngPassthrough ==
    (Selected /\ PySlice(data, offset, offset + 8) = PNG_SIGNATURE)
        => /\ pc \in { "detect", "returned" }
           /\ pc = "returned" => (ret.passthrough /\ ret.bytes = PyTail(data, offset))

\* C2 as stated: every output pixel of a 32 bpp DIB has alpha 255, whatever the
\* fourth byte of its source pixel.
C2_AlphaForcedOpaque ==
    (pc = "returned" /\ ~ret.passthrough /\ bits_per_pixel = 32)
        => \A y \in 0 .. (height - 1), x \in 0 .. (width - 1) :
               PixelAt(ret.rows, x, y)[4] = 255

\* C2 as amended: the alpha of every output pixel of a 32 bpp DIB is the fourth
\* byte of its 4-byte source pixel.
C2_AlphaIsFourthByte ==
    (pc = "returned" /\ ~ret.passthrough /\ bits_per_pixel = 32)
        => \A y \in 0 .. (height - 1), x \in 0 .. (width - 1) :
               PixelAt(ret.rows, x, y)[4] = data[DirectPixelStart(x, y) + 3 + 1]

C2_Witness ==
    /\ pc = "returned" /\ ~ret.passthrough /\ bits_per_pixel = 32
    /\ \E y \in 0 .. (height - 1), x \in 0 .. (width - 1) :
           PixelAt(ret.rows, x, y)[4] \notin { 0, 255 }

\* C3: a DIB with a 40-byte header whose depth is not 1, 2, 4, 8, 24 or 32 fails
\* with the unsupported-format error and produces no pixel buffer and no output.
C3_UnsupportedDepthFails ==
    (DibParsed /\ dib_size = 40 /\ bits_per_pixel \notin SupportedDepths)
        => /\ pc = "raised" /\ exc = [ type |-> "TypeError", line |-> 172 ]
           /\ pixels = << >>
           /\ ~ret.returned

\* C4: a buffer with a valid header and image count n but fewer than 6 + 16n
\* bytes fails with the same kind of error as a bad signature, and no other.
C4_ShortDirectoryIsFormatError ==
    (BufferHasIcoHeader /\ Len(data) < 6 + 16 * BufferCount
        /\ pc \notin { "header", "directories" })
        => pc = "raised" /\ exc.type = "TypeError"

\* C5: a buffer shorter than 6 bytes, or whose first two uint16 fields are not
\* (0, 1), fails with the format error before any directory entry is read and
\* returns nothing.
C5_BadHeaderIsFormatError ==
    (~BufferHasIcoHeader /\ pc # "header")
        => /\ pc = "raised" /\ exc.type = "TypeError" /\ exc.line \in { 45, 47 }
           /\ directories = << >>
           /\ ret = NoReturn

C5_Witness ==
    /\ pc = "raised"
    /\ Len(data) >= 6
    /\ U16(data, 0) = 256
    /\ U16(data, 2) = 1

\* C6: the selected entry is an entry of the directory whose (width, height,
\* colorCount), each raw 0 read as 256, is lexicographically greater than or
\* equal to that of every entry.
C6_SelectsLexMax ==
    Selected
        => /\ \E i \in 0 .. (BufferCount - 1) :
                  /\ SubSeq(directory, 1, 3) = EntryTuple(i)
                  /\ offset = EntryOffset(i)
           /\ \A i \in 0 .. (BufferCount - 1) :
                  LexGreaterEq(<< width, height, result.colors >>, EntryTuple(i))

\* an entry of raw width 0 is selected over an earlier entry of raw width 1..255
C6_Witness ==
    /\ Selected
    /\ BufferCount = 2
    /\ data[6 + 1] \in 1 .. 255
    /\ data[6 + 16 + 1] = 0
    /\ width = 256
    /\ offset = EntryOffset(1)

\* C7: in a palette-indexed image, an output pixel (x, y) whose AND-map bit, at
\* bit (height - y - 1) * rowStrideBits + x, most significant bit first, is 1, is
\* exactly (0, 0, 0, 0).
C7_MaskedIsTransparent ==
    \A p \in IndexedPixels :
        /\ AndBitPresent(p[1], p[2])
        /\ AndBit(p[1], p[2]) = 1 => PixelAt(pixels, p[1], p[2]) = << 0, 0, 0, 0 >>

C7_Witness ==
    /\ pc = "returned" /\ ret.rows = pixels
    /\ height >= 2
    /\ \E p \in IndexedPixels : AndBit(p[1], p[2]) = 1 /\ XorIndex(p[1], p[2]) # 0
    /\ \E p \in IndexedPixels : AndBit(p[1], p[2]) = 0

\* C8: in a palette-indexed image, an output pixel (x, y) whose AND-map bit is 0
\* is (r, g, b, 255), the palette entry (stored blue, green, red, reserved) whose
\* index is the value of the depth-wide bit group at bit offset
\* depth * ((height - y - 1) * width + x) of the XOR map, first bit most
\* significant (index 0 where the XOR map ends before that group).
C8_UnmaskedIsPaletteColor ==
    \A p \in IndexedPixels :
        (AndBitPresent(p[1], p[2]) /\ AndBit(p[1], p[2]) = 0)
            => PixelAt(pixels, p[1], p[2]) = PaletteRgb(XorIndex(p[1], p[2])) \o << 255 >>

\* a 1 bpp 2x2 image whose mask is all zero: four opaque pixels, the stored
\* bottom row last
C8_Witness ==
    /\ pc = "returned" /\ ret.rows = pixels
    /\ bits_per_pixel = 1 /\ width = 2 /\ height = 2
    /\ \A p \in IndexedPixels : AndBit(p[1], p[2]) = 0
    /\ Cardinality(IndexedPixels) = 4
    /\ XorBitOffset(0, 1) = 0 /\ XorBitOffset(0, 0) = 2
    /\ XorIndex(0, 0) # XorIndex(0, 1)
    /\ ret.rows[1] # ret.rows[2]

\* C9: in a 24 or 32 bpp image, output pixel (x, y) has red, green, blue from
\* bytes 2, 1, 0 of the source pixel at unpadded position (h - 1 - y) * w + x
\* behind the 40-byte header; at 24 bpp its alpha is 255.
C9_DirectColorFlipped ==
    (pc = "returned" /\ ~ret.passthrough /\ bits_per_pixel \in { 24, 32 })
        => /\ ret.width = width /\ ret.height = height
           /\ Len(ret.rows) = height
           /\ \A y \in 0 .. (height - 1) :
                  /\ Len(ret.rows[y + 1]) = 4 * width
                  /\ \A x \in 0 .. (width - 1) :
                         LET px == PixelAt(ret.rows, x, y)
                             at == DirectPixelStart(x, y)
                         IN  /\ px[1] = data[at + 2 + 1]
                             /\ px[2] = data[at + 1 + 1]
                             /\ px[3] = data[at + 0 + 1]
                             /\ bits_per_pixel = 24 => px[4] = 255

C9_Witness ==
    /\ pc = "returned" /\ ~ret.passthrough /\ bits_per_pixel = 24
    /\ height >= 2 /\ width >= 2
    /\ ret.rows[1] # ret.rows[height]

\* C10: once the DIB decoder is entered, one entry is selected and every byte
\* the decoder has read lies in [imageOffset, imageOffset + bytesInResource) of
\* that entry.
C10_ReadsWithinResource ==
    InDecoder
        => /\ \E i \in 0 .. (BufferCount - 1) :
                  SubSeq(directory, 1, 3) = EntryTuple(i) /\ offset = EntryOffset(i)
           /\ \A i \in reads : offset <= i /\ i < offset + result.bytes

====
